---- MODULE Spec2Model ----
(***************************************************************************)
(* Model of scripts/bump-version.py: the release script that reads the    *)
(* version from Cargo.toml, computes the bumped version, rewrites the      *)
(* manifest, runs cargo build, shows a diff, and optionally commits, tags  *)
(* and pushes.                                                             *)
(*                                                                         *)
(* Text is modelled character by character: a line is a sequence of        *)
(* one-character strings, a file is the sequence of its lines.  External   *)
(* commands (cargo, git) are opaque: each invocation ends in one of        *)
(* "ok" (exit status 0), "fail" (CalledProcessError, check=True) or        *)
(* "missing" (FileNotFoundError raised by subprocess.run).  Reading and    *)
(* writing the files themselves is assumed not to raise.                   *)
(***************************************************************************)
EXTENDS Integers, Sequences, FiniteSets, TLC

VARIABLES
    pc,                     \* position of main()
    bump_type,              \* args.bump_type
    exists,                 \* Cargo.toml exists in the working directory
    manifest,               \* content of Cargo.toml (sequence of lines)
    lock,                   \* content of Cargo.lock (opaque)
    current_version,        \* local of main
    new_version,            \* local of main
    typed,                  \* the line the operator typed at the last prompt
    reply,                  \* local of main (already lower-cased)
    release_notes_content,  \* local of main
    calls,                  \* external commands invoked so far, with results
    out,                    \* messages printed so far (set of tags)
    exit_code,              \* -1 while running, else the process exit status
    uncaught,               \* exception that escaped main, or "none"
    writes,                 \* number of write_text calls on Cargo.toml
    manifest0               \* history: content of Cargo.toml at start

vars == <<pc, bump_type, exists, manifest, lock, current_version, new_version,
          typed, reply, release_notes_content, calls, out, exit_code, uncaught,
          writes, manifest0>>

(***************************************************************************)
(* Bounds of the model                                                     *)
(***************************************************************************)
MaxNum == 1        \* version components range over 0..MaxNum (and 9)
MaxPrefix == 2     \* number of lines that may precede the version line

(***************************************************************************)
(* Characters and text helpers                                             *)
(***************************************************************************)
Digits == <<"0", "1", "2", "3", "4", "5", "6", "7", "8", "9">>
Quote == "\""
Dot == "."
Dash == "-"

IsDigit(c) == \E d \in 1..10 : Digits[d] = c
DigitVal(c) == (CHOOSE d \in 1..10 : Digits[d] = c) - 1

\* str.split(sep) for a one-character separator
RECURSIVE Split(_, _)
Split(s, sep) ==
    IF \E i \in 1..Len(s) : s[i] = sep
    THEN LET i == CHOOSE k \in 1..Len(s) :
                      s[k] = sep /\ \A j \in 1..(k - 1) : s[j] # sep
         IN  <<SubSeq(s, 1, i - 1)>> \o Split(SubSeq(s, i + 1, Len(s)), sep)
    ELSE <<s>>

\* int(s) succeeds (decimal digits only; signs, blanks and underscores are
\* outside the alphabet of the modelled inputs)
IsInt(s) == Len(s) > 0 /\ \A i \in 1..Len(s) : IsDigit(s[i])

\* int(s)
RECURSIVE ToInt(_)
ToInt(s) ==
    IF s = <<>> THEN 0
    ELSE 10 * ToInt(SubSeq(s, 1, Len(s) - 1)) + DigitVal(s[Len(s)])

\* f"{n}" for a non-negative integer
RECURSIVE FormatInt(_)
FormatInt(n) ==
    IF n < 10 THEN <<Digits[n + 1]>>
    ELSE FormatInt(n \div 10) \o <<Digits[(n % 10) + 1]>>

\* str.lower() on the replies the operator may type
Lower(s) ==
    CASE s = "Y" -> "y"
      [] s = "N" -> "n"
      [] s = "YES" -> "yes"
      [] OTHER -> s

StartsWith(s, p) == Len(s) >= Len(p) /\ SubSeq(s, 1, Len(p)) = p

(***************************************************************************)
(* get_current_version                                                     *)
(***************************************************************************)
\* the literal  version = "  of both regular expressions
VersionPrefix == <<"v", "e", "r", "s", "i", "o", "n", " ", "=", " ", Quote>>

\* ^version = "(.*)"  matches at the start of this line
LineMatches(line) ==
    /\ StartsWith(line, VersionPrefix)
    /\ \E i \in (Len(VersionPrefix) + 1)..Len(line) : line[i] = Quote

\* group(1): .* is greedy, so it runs to the last quote of the line
Group1(line) ==
    LET q == CHOOSE i \in (Len(VersionPrefix) + 1)..Len(line) :
                 line[i] = Quote /\ \A j \in (i + 1)..Len(line) : line[j] # Quote
    IN  SubSeq(line, Len(VersionPrefix) + 1, q - 1)

\* re.search(..., re.MULTILINE) finds a match
HasVersion(content) == \E i \in 1..Len(content) : LineMatches(content[i])

\* index of the line of the leftmost match
FirstVersionLine(content) ==
    CHOOSE i \in 1..Len(content) :
        LineMatches(content[i]) /\ \A j \in 1..(i - 1) : ~LineMatches(content[j])

get_current_version(content) == Group1(content[FirstVersionLine(content)])

(***************************************************************************)
(* calculate_new_version                                                   *)
(***************************************************************************)
VersionCore(v) == Split(Split(v, Dash)[1], Dot)

\* the unpacking into three names and the three int() calls succeed
CanCalculate(v) ==
    /\ Len(VersionCore(v)) = 3
    /\ \A i \in 1..3 : IsInt(VersionCore(v)[i])

FormatVersion(major, minor, patch) ==
    FormatInt(major) \o <<Dot>> \o FormatInt(minor) \o <<Dot>> \o FormatInt(patch)

calculate_new_version_keep_patch(v, bt) ==
    LET major == ToInt(VersionCore(v)[1])
        minor == ToInt(VersionCore(v)[2])
        patch == ToInt(VersionCore(v)[3])
    IN  CASE bt = "patch" -> FormatVersion(major, minor, patch + 1)
          [] bt = "minor" -> FormatVersion(major, minor + 1, patch)
          [] bt = "major" -> FormatVersion(major + 1, 0, 0)

calculate_new_version(v, bt) ==
    LET major == ToInt(VersionCore(v)[1])
        minor == ToInt(VersionCore(v)[2])
        patch == ToInt(VersionCore(v)[3])
    IN  CASE bt = "patch" -> FormatVersion(major, minor, patch + 1)
          [] bt = "minor" -> FormatVersion(major, minor + 1, 0)
          [] bt = "major" -> FormatVersion(major + 1, 0, 0)

(***************************************************************************)
(* update_cargo_toml                                                       *)
(***************************************************************************)
\* re.sub without re.MULTILINE: ^ matches only at the start of the content,
\* i.e. at the start of the first line; re.escape makes the version literal
update_cargo_toml(content, cur, new) ==
    LET pattern == VersionPrefix \o cur \o <<Quote>>
    IN  IF content # <<>> /\ StartsWith(content[1], pattern)
        THEN [content EXCEPT ![1] =
                 VersionPrefix \o new \o <<Quote>>
                  \o SubSeq(content[1], Len(pattern) + 1, Len(content[1]))]
        ELSE content

(***************************************************************************)
(* Inputs: manifests, bump classes, operator replies, command outcomes     *)
(***************************************************************************)
BumpTypes == {"patch", "minor", "major"}
Replies == {"y", "Y", "n", "yes", ""}
Outcomes == {"ok", "fail", "missing"}
NotesStates == {"absent", "blank", "text"}

Nums == (0..MaxNum) \cup {9}
Suffixes == {<<>>, <<Dash, "r", "c", "1">>}

GoodVersions ==
    {FormatVersion(x, y, z) \o sfx : x \in Nums, y \in Nums, z \in Nums, sfx \in Suffixes}

\* version strings on which the unpacking or int() raises ValueError
BadVersions == {<<"1", Dot, "2">>, <<"1", Dot, "x", Dot, "3">>}

\* lines that are not matched by the version pattern
PkgLine == <<"[", "p", "k", "g", "]">>
NameLine == <<"n", "a", "m", "e", " ", "=", " ", Quote, "f", Quote>>
IndentedLine == <<" ">> \o VersionPrefix \o <<"9", Dot, "9", Dot, "9", Quote>>
PrefixPool == <<PkgLine, NameLine, IndentedLine, PkgLine>>
Prefixes == {SubSeq(PrefixPool, 1, k) : k \in 0..MaxPrefix}

VersionLine(v) == VersionPrefix \o v \o <<Quote>>
CommentedLine(v) == VersionLine(v) \o <<" ", "#", "c">>

\* a later table that repeats the same version string
Tails(v) == {<<>>, <<PkgLine, VersionLine(v)>>}

\* versions placed in every position of the file
ShapeVersions == {FormatVersion(0, 1, 0), FormatVersion(1, 9, 9) \o <<Dash, "r", "c", "1">>}

Manifests ==
    {<<VersionLine(v)>> : v \in GoodVersions \cup BadVersions}
    \cup UNION {{p \o <<VersionLine(v)>> \o t : p \in Prefixes, t \in Tails(v)} :
                   v \in ShapeVersions}
    \cup {<<PkgLine, VersionLine(v)>> : v \in BadVersions}
    \cup {<<CommentedLine(v)>> : v \in {FormatVersion(0, 1, 0)}}
    \cup {<<VersionLine(FormatVersion(0, 1, 0)) \o <<" ", "#", Quote, "x", Quote>>>>}
    \cup Prefixes

Call(cmd, arg, res) == [cmd |-> cmd, arg |-> arg, res |-> res]

(***************************************************************************)
(* main                                                                    *)
(***************************************************************************)
Init ==
    /\ pc = "start"
    /\ bump_type \in BumpTypes
    /\ exists \in BOOLEAN
    /\ manifest \in (IF exists THEN Manifests ELSE {<<>>})
    /\ manifest0 = manifest
    /\ lock = "orig"
    /\ current_version = <<>>
    /\ new_version = <<>>
    /\ typed = ""
    /\ reply = ""
    /\ release_notes_content = ""
    /\ calls = <<>>
    /\ out = {}
    /\ exit_code = -1
    /\ uncaught = "none"
    /\ writes = 0

\* sys.exit(code), or falling off the end of main (code 0)
Exit(code) ==
    /\ pc' = "exited"
    /\ exit_code' = code
    /\ uncaught' = "none"

\* an exception that no except clause of main catches: traceback, status 1
Crash(exc) ==
    /\ pc' = "exited"
    /\ exit_code' = 1
    /\ uncaught' = exc

\* variant without the exists() test: read_text raises on a missing file
ReadManifestNoExistsCheck ==
    /\ pc = "start"
    /\ IF ~exists
       THEN /\ Crash("FileNotFoundError")
            /\ UNCHANGED <<current_version, out>>
       ELSE IF ~HasVersion(manifest)
       THEN /\ out' = out \cup {"err_no_version"}
            /\ Exit(1)
            /\ UNCHANGED current_version
       ELSE /\ current_version' = get_current_version(manifest)
            /\ pc' = "compute"
            /\ UNCHANGED <<out, exit_code, uncaught>>
    /\ UNCHANGED <<bump_type, exists, manifest, lock, new_version, typed, reply,
                   release_notes_content, calls, writes, manifest0>>

\* lines 108-118: locate the manifest and read the current version
ReadManifest ==
    /\ pc = "start"
    /\ IF ~exists
       THEN /\ out' = out \cup {"err_cargo_toml_not_found"}
            /\ Exit(1)
            /\ UNCHANGED current_version
       ELSE IF ~HasVersion(manifest)
       THEN /\ out' = out \cup {"err_no_version"}
            /\ Exit(1)
            /\ UNCHANGED current_version
       ELSE /\ current_version' = get_current_version(manifest)
            /\ pc' = "compute"
            /\ UNCHANGED <<out, exit_code, uncaught>>
    /\ UNCHANGED <<bump_type, exists, manifest, lock, new_version, typed, reply,
                   release_notes_content, calls, writes, manifest0>>

\* lines 120-126: compute the new version and show both
ComputeVersion ==
    /\ pc = "compute"
    /\ IF CanCalculate(current_version)
       THEN /\ new_version' = calculate_new_version(current_version, bump_type)
            /\ out' = out \cup {"versions_shown"}
            /\ pc' = "confirm1"
            /\ UNCHANGED <<exit_code, uncaught>>
       ELSE /\ Crash("ValueError")
            /\ UNCHANGED <<new_version, out>>
    /\ UNCHANGED <<bump_type, exists, manifest, lock, current_version, typed, reply,
                   release_notes_content, calls, writes, manifest0>>

\* lines 128-131: first confirmation
Confirm1Lenient ==
    /\ pc = "confirm1"
    /\ \E line \in Replies :
        /\ typed' = line
        /\ reply' = Lower(line)
        /\ out' = out \cup {"prompt1"}
        /\ pc' = "mutate"
        /\ UNCHANGED <<exit_code, uncaught>>
    /\ UNCHANGED <<bump_type, exists, manifest, lock, current_version,
                   new_version, release_notes_content, calls, writes, manifest0>>

Confirm1 ==
    /\ pc = "confirm1"
    /\ \E line \in Replies :
        /\ typed' = line
        /\ reply' = Lower(line)
        /\ IF reply' # "y"
           THEN /\ out' = out \cup {"prompt1", "aborted"}
                /\ Exit(0)
           ELSE /\ out' = out \cup {"prompt1"}
                /\ pc' = "mutate"
                /\ UNCHANGED <<exit_code, uncaught>>
    /\ UNCHANGED <<bump_type, exists, manifest, lock, current_version,
                   new_version, release_notes_content, calls, writes, manifest0>>

\* lines 133-136: rewrite Cargo.toml
UpdateCargoToml ==
    /\ pc = "mutate"
    /\ manifest' = update_cargo_toml(manifest, current_version, new_version)
    /\ writes' = writes + 1
    /\ out' = out \cup {"updated_cargo_toml"}
    /\ pc' = "build"
    /\ UNCHANGED <<bump_type, exists, lock, current_version, new_version, typed, reply,
                   release_notes_content, calls, exit_code, uncaught, manifest0>>

\* lines 138-141 and update_cargo_lock (74-80): cargo build --quiet.
\* cargo may have rewritten Cargo.lock whenever it ran, also when it failed.
UpdateCargoLockFatal ==
    /\ pc = "build"
    /\ \E res \in Outcomes, regen \in BOOLEAN :
        /\ calls' = Append(calls, Call("cargo build", <<>>, res))
        /\ lock' = IF res # "missing" /\ regen THEN "regenerated" ELSE lock
        /\ IF res = "ok"
           THEN /\ out' = out \cup {"updated_cargo_lock"}
                /\ pc' = "diff"
                /\ UNCHANGED <<exit_code, uncaught>>
           ELSE /\ out' = out \cup {"warn_cargo_build"}
                /\ Exit(1)
    /\ UNCHANGED <<bump_type, exists, manifest, current_version, new_version,
                   typed, reply, release_notes_content, writes, manifest0>>

UpdateCargoLock ==
    /\ pc = "build"
    /\ \E res \in Outcomes, regen \in BOOLEAN :
        /\ calls' = Append(calls, Call("cargo build", <<>>, res))
        /\ lock' = IF res # "missing" /\ regen THEN "regenerated" ELSE lock
        /\ CASE res = "ok" ->
                  /\ out' = out \cup {"updated_cargo_lock"}
                  /\ pc' = "diff"
                  /\ UNCHANGED <<exit_code, uncaught>>
             [] res = "fail" ->
                  /\ out' = out \cup {"warn_cargo_build", "updated_cargo_lock"}
                  /\ pc' = "diff"
                  /\ UNCHANGED <<exit_code, uncaught>>
             [] res = "missing" ->
                  /\ Crash("FileNotFoundError")
                  /\ UNCHANGED out
    /\ UNCHANGED <<bump_type, exists, manifest, current_version, new_version,
                   typed, reply, release_notes_content, writes, manifest0>>

\* lines 143-156: git diff Cargo.toml Cargo.lock
ShowDiff ==
    /\ pc = "diff"
    /\ \E res \in Outcomes :
        /\ calls' = Append(calls, Call("git diff", <<>>, res))
        /\ CASE res = "ok" ->
                  /\ out' = out \cup {"git_diff"}
                  /\ pc' = "notes"
                  /\ UNCHANGED <<exit_code, uncaught>>
             [] res = "fail" ->
                  /\ out' = out \cup {"could_not_get_git_diff"}
                  /\ pc' = "notes"
                  /\ UNCHANGED <<exit_code, uncaught>>
             [] res = "missing" ->
                  /\ Crash("FileNotFoundError")
                  /\ UNCHANGED out
    /\ UNCHANGED <<bump_type, exists, manifest, lock, current_version,
                   new_version, typed, reply, release_notes_content, writes, manifest0>>

\* lines 160-167: RELEASE_NOTES.md, stripped
LoadNotes ==
    /\ pc = "notes"
    /\ \E notes \in NotesStates :
        /\ release_notes_content' = IF notes = "text" THEN "notes" ELSE ""
        /\ out' = out \cup {IF notes = "absent" THEN "warn_no_release_notes"
                                                ELSE "found_release_notes"}
    /\ pc' = "confirm2"
    /\ UNCHANGED <<bump_type, exists, manifest, lock, current_version,
                   new_version, typed, reply, calls, exit_code, uncaught, writes,
                   manifest0>>

\* lines 169-181: second confirmation
Confirm2DefaultYes ==
    /\ pc = "confirm2"
    /\ \E line \in Replies :
        /\ typed' = line
        /\ reply' = Lower(line)
        /\ IF reply' \notin {"y", ""}
           THEN /\ out' = out \cup {"prompt2", "not_committed", "manual_commit",
                                    IF release_notes_content # ""
                                    THEN "manual_tag_annotated" ELSE "manual_tag",
                                    "manual_push"}
                /\ Exit(0)
           ELSE /\ out' = out \cup {"prompt2"}
                /\ pc' = "branch"
                /\ UNCHANGED <<exit_code, uncaught>>
    /\ UNCHANGED <<bump_type, exists, manifest, lock, current_version,
                   new_version, release_notes_content, calls, writes, manifest0>>

Confirm2 ==
    /\ pc = "confirm2"
    /\ \E line \in Replies :
        /\ typed' = line
        /\ reply' = Lower(line)
        /\ IF reply' # "y"
           THEN /\ out' = out \cup {"prompt2", "not_committed", "manual_commit",
                                    IF release_notes_content # ""
                                    THEN "manual_tag_annotated" ELSE "manual_tag",
                                    "manual_push"}
                /\ Exit(0)
           ELSE /\ out' = out \cup {"prompt2"}
                /\ pc' = "branch"
                /\ UNCHANGED <<exit_code, uncaught>>
    /\ UNCHANGED <<bump_type, exists, manifest, lock, current_version,
                   new_version, release_notes_content, calls, writes, manifest0>>

\* one run_command of the try block (183-221): success goes on to the next
\* statement, CalledProcessError and FileNotFoundError are caught at 215-221
GitStep(here, cmd, arg, next, msgs) ==
    /\ pc = here
    /\ \E res \in Outcomes :
        /\ calls' = Append(calls, Call(cmd, arg, res))
        /\ CASE res = "ok" ->
                  /\ out' = out \cup msgs
                  /\ IF next = "exited" THEN Exit(0)
                     ELSE /\ pc' = next
                          /\ UNCHANGED <<exit_code, uncaught>>
             [] res = "fail" ->
                  /\ out' = out \cup {"err_git_operations"}
                  /\ Exit(1)
             [] res = "missing" ->
                  /\ out' = out \cup {"err_git_not_found"}
                  /\ Exit(1)
    /\ UNCHANGED <<bump_type, exists, manifest, lock, current_version,
                   new_version, typed, reply, release_notes_content, writes, manifest0>>

\* the same step with check=False: a failure status is not noticed
GitStepUnchecked(here, cmd, arg, next, msgs) ==
    /\ pc = here
    /\ \E res \in Outcomes :
        /\ calls' = Append(calls, Call(cmd, arg, res))
        /\ CASE res \in {"ok", "fail"} ->
                  /\ out' = out \cup msgs
                  /\ IF next = "exited" THEN Exit(0)
                     ELSE /\ pc' = next
                          /\ UNCHANGED <<exit_code, uncaught>>
             [] res = "missing" ->
                  /\ out' = out \cup {"err_git_not_found"}
                  /\ Exit(1)
    /\ UNCHANGED <<bump_type, exists, manifest, lock, current_version,
                   new_version, typed, reply, release_notes_content, writes, manifest0>>

\* line 184: git rev-parse --abbrev-ref HEAD
GitBranch == GitStep("branch", "git rev-parse", <<>>, "stage", {})

\* line 189: git add Cargo.toml Cargo.lock
GitAdd == GitStep("stage", "git add", <<>>, "commit", {})

\* lines 190-191: git commit -m "Bump version to <new_version>"
GitCommitUnchecked ==
    GitStepUnchecked("commit", "git commit", new_version, "tag", {"committed"})

GitCommit == GitStep("commit", "git commit", new_version, "tag", {"committed"})

\* lines 195-199: git tag [-a] v<new_version> [-F RELEASE_NOTES.md]
GitTagUnchecked ==
    GitStepUnchecked("tag",
            IF release_notes_content # "" THEN "git tag -a" ELSE "git tag",
            new_version, "pushBranch", {"tagged"})

GitTag ==
    GitStep("tag",
            IF release_notes_content # "" THEN "git tag -a" ELSE "git tag",
            new_version, "pushBranch", {"tagged"})

\* line 203: git push origin <current_branch>
GitPushBranch == GitStep("pushBranch", "git push branch", <<>>, "pushTag", {})

\* lines 204-213: git push origin v<new_version>, then the banner
GitPushTag ==
    GitStep("pushTag", "git push tag", new_version, "exited", {"pushed", "released"})

Next ==
    \/ ReadManifest
    \/ ComputeVersion
    \/ Confirm1
    \/ UpdateCargoToml
    \/ UpdateCargoLock
    \/ ShowDiff
    \/ LoadNotes
    \/ Confirm2
    \/ GitBranch
    \/ GitAdd
    \/ GitCommit
    \/ GitTag
    \/ GitPushBranch
    \/ GitPushTag

Spec == Init /\ [][Next]_vars

TypeOK ==
    /\ pc \in {"start", "compute", "confirm1", "mutate", "build", "diff", "notes",
               "confirm2", "branch", "stage", "commit", "tag", "pushBranch",
               "pushTag", "exited"}
    /\ bump_type \in BumpTypes
    /\ exit_code \in {-1, 0, 1}
    /\ (pc = "exited") = (exit_code # -1)
    /\ uncaught \in {"none", "ValueError", "FileNotFoundError"}
    /\ writes \in 0..1

(***************************************************************************)
(* Vocabulary of the properties                                            *)
(***************************************************************************)
Affirmative == {"y", "Y"}
BuildCmds == {"cargo build", "git diff"}
TagCmds == {"git tag", "git tag -a"}
IsVC(c) == c.cmd \notin BuildCmds

\* the version-control commands of the try block, in invocation order
VCCalls == SelectSeq(calls, IsVC)

\* the order the six steps are written in
VCOrder == <<{"git rev-parse"}, {"git add"}, {"git commit"}, TagCmds,
             {"git push branch"}, {"git push tag"}>>

Ran(cmd) == \E i \in 1..Len(calls) : calls[i].cmd = cmd /\ calls[i].res = "ok"
CommitCreated == Ran("git commit")
LastCall == calls[Len(calls)]

\* what update_cargo_toml wrote at step 1
Written == update_cargo_toml(manifest0, current_version, new_version)

\* the run ended with status 1 in the except clauses of the try block
VCFailed ==
    /\ pc = "exited"
    /\ exit_code = 1
    /\ VCCalls # <<>>
    /\ LastCall.res # "ok"

(***************************************************************************)
(* C1: once the first confirmation is answered yes, update_cargo_toml      *)
(* leaves the first version line of the manifest carrying the new version  *)
(* and every other line as it was, wherever the version line sits.         *)
(***************************************************************************)
C1_ExactlyOneLineChanged ==
    writes = 1 =>
        LET i == FirstVersionLine(manifest0)
        IN  /\ Len(manifest) = Len(manifest0)
            /\ StartsWith(manifest[i], VersionPrefix \o new_version \o <<Quote>>)
            /\ manifest[i] # manifest0[i]
            /\ \A j \in 1..Len(manifest0) : j # i => manifest[j] = manifest0[j]

(***************************************************************************)
(* C2: for a version X.Y.Z or X.Y.Z-suffix the new version is X.Y.(Z+1)    *)
(* for patch, X.(Y+1).0 for minor and (X+1).0.0 for major, and carries no  *)
(* part of the suffix.                                                     *)
(***************************************************************************)
C2_BumpArithmetic ==
    new_version # <<>> =>
        \A x \in Nums, y \in Nums, z \in Nums, sfx \in Suffixes :
            current_version = FormatVersion(x, y, z) \o sfx =>
                /\ bump_type = "patch" => new_version = FormatVersion(x, y, z + 1)
                /\ bump_type = "minor" => new_version = FormatVersion(x, y + 1, 0)
                /\ bump_type = "major" => new_version = FormatVersion(x + 1, 0, 0)
                /\ \A i \in 1..Len(new_version) :
                       new_version[i] = Dot \/ IsDigit(new_version[i])

C2_Witness ==
    /\ pc = "confirm1"
    /\ bump_type = "minor"
    /\ current_version = <<"1", Dot, "9", Dot, "9", Dash, "r", "c", "1">>
    /\ new_version = <<"1", Dot, "1", "0", Dot, "0">>

(***************************************************************************)
(* C3: a reply to the first prompt other than y or Y ends the run with     *)
(* exit code 0 and no side effect (manifest and lock as at start, nothing  *)
(* written, no command invoked); and up to an affirmative first reply no   *)
(* step writes a file or runs a command.                                   *)
(***************************************************************************)
C3_DeclineFirst ==
    [][ /\ (pc = "confirm1" /\ typed' \notin Affirmative) =>
               /\ pc' = "exited"
               /\ exit_code' = 0
               /\ uncaught' = "none"
        /\ (pc \in {"start", "compute", "confirm1"}
              /\ ~(pc = "confirm1" /\ typed' \in Affirmative)) =>
               /\ manifest' = manifest0
               /\ lock' = "orig"
               /\ writes' = 0
               /\ calls' = <<>>
        /\ pc' = "mutate" => pc = "confirm1" /\ typed' \in Affirmative
      ]_vars

C3_Witness ==
    /\ pc = "exited"
    /\ typed = "yes"
    /\ "prompt1" \in out
    /\ "prompt2" \notin out
    /\ exit_code = 0

(***************************************************************************)
(* C4: a reply to the second prompt other than y or Y ends the run with    *)
(* exit code 0, the three manual commands printed, no version-control      *)
(* command run and the files as the earlier steps left them; and no        *)
(* stage, commit, tag or push is ever invoked before an affirmative        *)
(* second reply.                                                           *)
(***************************************************************************)
C4_DeclineSecond ==
    [][ /\ (pc = "confirm2" /\ typed' \notin Affirmative) =>
               /\ pc' = "exited"
               /\ exit_code' = 0
               /\ uncaught' = "none"
               /\ calls' = calls
               /\ VCCalls = <<>>
               /\ manifest' = Written
               /\ lock' = lock
               /\ "manual_commit" \in out'
               /\ "manual_tag" \in out' \/ "manual_tag_annotated" \in out'
               /\ "manual_push" \in out'
        /\ Len(calls') > Len(calls) /\ IsVC(calls'[Len(calls')]) =>
               /\ "prompt2" \in out
               /\ typed \in Affirmative
      ]_vars

C4_Witness ==
    /\ pc = "exited"
    /\ typed = "n"
    /\ exit_code = 0
    /\ "manual_push" \in out
    /\ manifest # manifest0
    /\ lock = "regenerated"

(***************************************************************************)
(* C5: with the manifest absent, or present without a line matching the    *)
(* version pattern, the run ends with the reported error and exit code 1,  *)
(* having written no file, shown no prompt and invoked no command.         *)
(***************************************************************************)
C5_PreconditionsFatal ==
    ((~exists \/ ~HasVersion(manifest0)) /\ pc # "start") =>
        /\ pc = "exited"
        /\ exit_code = 1
        /\ uncaught = "none"
        /\ out = {IF exists THEN "err_no_version" ELSE "err_cargo_toml_not_found"}
        /\ writes = 0
        /\ manifest = manifest0
        /\ lock = "orig"
        /\ calls = <<>>

C5_Witness ==
    /\ pc = "exited"
    /\ exists
    /\ Len(manifest0) = 2
    /\ ~HasVersion(manifest0)
    /\ exit_code = 1

(***************************************************************************)
(* C6: the version-control steps run in the order branch, stage, commit,   *)
(* tag v<new>, push branch, push tag; a step is attempted only if all      *)
(* earlier ones succeeded; the first failing step ends the run with exit   *)
(* code 1; the banner is printed only after all six succeeded.             *)
(***************************************************************************)
C6_LinearVersionControl ==
    /\ Len(VCCalls) <= 6
    /\ \A i \in 1..Len(VCCalls) :
        /\ VCCalls[i].cmd \in VCOrder[i]
        /\ i < Len(VCCalls) => VCCalls[i].res = "ok"
        /\ VCCalls[i].cmd \in TagCmds \cup {"git commit", "git push tag"} =>
               VCCalls[i].arg = new_version
        /\ VCCalls[i].res # "ok" => pc = "exited" /\ exit_code = 1
    /\ "released" \in out =>
        /\ Len(VCCalls) = 6
        /\ \A i \in 1..6 : VCCalls[i].res = "ok"
    /\ (pc = "exited" /\ exit_code = 0 /\ VCCalls # <<>>) => "released" \in out

C6_Witness ==
    /\ pc = "exited"
    /\ exit_code = 0
    /\ "released" \in out
    /\ Len(VCCalls) = 6

(***************************************************************************)
(* C7: a failure status of cargo build or of git diff does not end the     *)
(* run: a warning is printed, the manifest stays as written, and the run   *)
(* goes on to the next step, through the release-notes check to the        *)
(* second prompt.                                                          *)
(***************************************************************************)
C7_BuildDiffFailureNonFatal ==
    [][ /\ (pc \in {"build", "diff"} /\ Len(calls') > Len(calls)
              /\ calls'[Len(calls')].res = "fail") =>
               /\ pc' = (IF pc = "build" THEN "diff" ELSE "notes")
               /\ exit_code' = -1
               /\ manifest' = Written
               /\ (IF pc = "build" THEN "warn_cargo_build"
                                   ELSE "could_not_get_git_diff") \in out'
        /\ pc = "notes" => pc' = "confirm2" /\ manifest' = Written
        /\ (pc \in {"build", "diff", "notes"} /\ pc' = "exited") =>
               calls'[Len(calls')].res = "missing"
      ]_vars

C7_Witness ==
    /\ pc = "confirm2"
    /\ Len(calls) = 2
    /\ calls[1].res = "fail"
    /\ calls[2].res = "fail"
    /\ manifest # manifest0

(***************************************************************************)
(* C8 as stated: when a version-control step fails after the second        *)
(* confirmation, the manifest is as written (no rollback) and this run     *)
(* has created no commit.                                                  *)
(***************************************************************************)
C8_FailureLeavesUncommitted ==
    VCFailed => manifest = Written /\ ~CommitCreated

(***************************************************************************)
(* C8 amended: when a version-control step fails after the second          *)
(* confirmation, the manifest is as written (no rollback); this run has    *)
(* created no commit if the failing step is branch, stage or commit, and   *)
(* has created the commit when the failing step is tag, push branch or     *)
(* push tag.                                                               *)
(***************************************************************************)
C8_FailureKeepsFilesAndCommit ==
    VCFailed =>
        /\ manifest = Written
        /\ writes = 1
        /\ CommitCreated <=>
               LastCall.cmd \in TagCmds \cup {"git push branch", "git push tag"}

C8_Witness ==
    /\ VCFailed
    /\ LastCall.cmd = "git tag"
    /\ LastCall.res = "fail"
    /\ CommitCreated
    /\ manifest # manifest0

(***************************************************************************)
(* C9: a missing executable is always handled: at the build or diff step   *)
(* it is reported and the run goes on; at a version-control step after     *)
(* the second confirmation the run ends with the 'git command not found'   *)
(* error and exit code 1.  No exception escapes main.                      *)
(***************************************************************************)
C9_MissingExecutableHandled ==
    \A i \in 1..Len(calls) :
        calls[i].res = "missing" =>
            /\ uncaught = "none"
            /\ ~IsVC(calls[i]) => ~(pc = "exited" /\ i = Len(calls))
            /\ IsVC(calls[i]) =>
                   /\ pc = "exited"
                   /\ exit_code = 1
                   /\ "err_git_not_found" \in out

(***************************************************************************)
(* C10: whenever this run has created the commit "Bump version to N" or    *)
(* the tag vN, the version line of the manifest reads N.                   *)
(***************************************************************************)
C10_ReleasedVersionInManifest ==
    \A i \in 1..Len(calls) :
        (calls[i].cmd \in TagCmds \cup {"git commit"} /\ calls[i].res = "ok") =>
            /\ HasVersion(manifest)
            /\ get_current_version(manifest) = calls[i].arg

====
